---- MODULE Spec2Model ----
(***************************************************************************)
(* A model of bin/skeletonize.py: the conversion of an undirected skeleton *)
(* graph (nodes, polyline segments) and a soma region into a rooted DAG,   *)
(* an oriented segment map, and the sequence of morphology-sink calls that *)
(* grow the tree from the roots outward.                                   *)
(***************************************************************************)
EXTENDS Integers, Sequences, FiniteSets, TLC

\* ------------------------------------------------------------------ bounds
MaxNode == 3
MaxSegs == 3
MaxGrowSegs == 2
MaxInterior == 2
MaxSimplify == 4
MaxCoord == 5

MaxPath == 4

MaxLong == 5
MaxDagKey == 2
MaxMapSegs == 1
MaxDepth == 2
MaxBox == 4

Nodes == 1..MaxNode

\* ------------------------------------------------------- program constants
NOTSET == 0
DEBUG == 10
INFO == 20

k_WARN_UNCONNECTED_SEGMENTS == 1
k_WARN_IGNORED_EDGES == 2
k_WARN_MAX_GROW_DEPTH_REACHED == 3
k_WARN_CUT_NODES_FOUND == 4
k_INFO_IGNORED_POSITIONS == 100

WarnKeys ==
  {k_WARN_UNCONNECTED_SEGMENTS, k_WARN_IGNORED_EDGES, k_WARN_MAX_GROW_DEPTH_REACHED,
   k_WARN_CUT_NODES_FOUND, k_INFO_IGNORED_POSITIONS}

VARIABLES
  pc,            \* position of the run in main / create_morphology
  skelnodes,     \* skel.nodes: node id -> [pos, diameter]
  segments,      \* skel.segments: sequence of [id, start, end, points]
  somanodes,     \* soma_node_idxs: list of root node ids
  opts,          \* morph_options
  nodesgraph,    \* node_idx_graph: node id -> set of neighbour ids
  edges,         \* dag_nodes: node id -> set of child ids
  visited,       \* create_directed_graph's visited list
  frontier,      \* create_directed_graph's worklist
  warn_counts,   \* morph_statistics.warn_counts
  nodesegments,  \* node_segments: node id -> sequence of oriented segments
  valid,         \* outcome of validate_graph_segments: "none", "ok", "fail"
  frame,         \* offsets: [centre, radius] of the soma
  nodes,         \* GrownNodeTable: raw position -> handle of the grown section
  grown_visited, \* create_morphology's visited list, shared by all grow_segments calls
  calls,         \* grow_segments calls still to run, innermost first: [node, depth]
  sink,          \* the calls made on the morphology sink, in order
  node_grow_stats, \* morph_statistics.node_grow_stats: handle -> positions grown from it
  outfile,       \* the output file: "absent" or "written"
  raised,        \* an AssertionError has been raised
  simp,          \* one segment walked under two thresholds
  iter,          \* the iteration order of the interpreter's sets and dicts
  prior,         \* what the previous run on the same inputs ended with
  stack          \* the stack box of the annotation file while main reads it

inputVars == <<skelnodes, segments, opts, frame, iter, stack>>

graphVars == <<nodesgraph, edges, visited, frontier>>

growVars == <<nodes, grown_visited, calls, sink, node_grow_stats, outfile>>

\* what the graph stages leave alone
restVars ==
  <<nodes, grown_visited, calls, sink, node_grow_stats, outfile, raised, simp, prior>>

vars ==
  <<pc, skelnodes, segments, somanodes, opts, nodesgraph, edges, visited, frontier,
    warn_counts, nodesegments, valid, frame, nodes, grown_visited, calls, sink,
    node_grow_stats, outfile, raised, simp, iter, prior>>

\* ----------------------------------------------------------------- helpers
Range(s) == {s[i] : i \in DOMAIN s}

Reverse(s) == [i \in 1..Len(s) |-> s[Len(s) + 1 - i]]

\* every order in which a for-loop can iterate a Python set or a dict's keys
RECURSIVE Orderings(_)
Orderings(S) ==
  IF S = {} THEN {<<>>}
  ELSE UNION {{<<x>> \o t : t \in Orderings(S \ {x})} : x \in S}

\* d[k] += 1 on a defaultdict(lambda: 0)
Incr(counts, k, by) == [counts EXCEPT ![k] = @ + by]

\* ----------------------------------------------------------- morph_options
\* the class morph_options of create_morphology, from main's options; the
\* logging level and the depth budget travel with it
MorphOptions(options) ==
  [ k_ALLOW_CYCLES          |-> options.allow_cycles,
    k_CONNECT_SOMA_SOMA     |-> options.verbosity_level <= NOTSET,
    k_SEGMENT_THRESHOLD_SQR |-> options.threshold_segment_length,
    k_CLIP_INSIDE_SOMA      |-> options.verbosity_level > NOTSET,
    k_INFLATE_SOMA          |-> options.verbosity_level > NOTSET,
    k_SCALING_FACTOR        |-> options.scaling_factor,
    k_CUTPOINT_AABB         |-> options.stack_AABB,
    verbosity_level         |-> options.verbosity_level,
    graph_depth             |-> options.graph_depth ]

\* ------------------------------------------------------- create_node_graph
create_node_graph(segs) ==
  LET touched == {segs[i].start : i \in DOMAIN segs} \cup {segs[i].end : i \in DOMAIN segs}
  IN  [n \in touched |->
         {segs[i].end : i \in {j \in DOMAIN segs : segs[j].start = n}}
         \cup {segs[i].start : i \in {j \in DOMAIN segs : segs[j].end = n}}]

\* nodesgraph[n] on the defaultdict: a missing key reads as the empty set ...
Neighbours(g, n) == IF n \in DOMAIN g THEN g[n] ELSE {}

\* ... and is inserted by the read
Touch(g, n) == IF n \in DOMAIN g THEN g ELSE g @@ (n :> {})

\* --------------------------------------------------- create_directed_graph
\* frontier = copy.deepcopy(somanodes)
InitFrontierHeadOnly(snodes) == IF snodes = <<>> THEN <<>> ELSE <<snodes[1]>>

InitFrontier(snodes) == snodes

\* the accept predicate of line 374
AcceptEdgeNoRootTest(o, snodes, nn, is_visited) == o.k_ALLOW_CYCLES \/ ~is_visited

AcceptEdgeNoVisitTest(o, snodes, nn, is_visited) ==
  o.k_CONNECT_SOMA_SOMA \/ nn \notin Range(snodes)

AcceptEdge(o, snodes, nn, is_visited) ==
  /\ (o.k_CONNECT_SOMA_SOMA \/ nn \notin Range(snodes))
  /\ (o.k_ALLOW_CYCLES \/ ~is_visited)

\* visited.append(n)
MarkVisitedNever(v, n) == v

MarkVisited(v, n) == Append(v, n)

\* if (n not in edges): edges[n] = set()
EnsureKey(e, n) == IF n \in DOMAIN e THEN e ELSE e @@ (n :> {})

\* lines 372-373: the unvisited neighbours, queued in the order they are met
PushFirstOnly(order, v) ==
  LET new == SelectSeq(order, LAMBDA nn : nn \notin Range(v))
  IN  IF new = <<>> THEN <<>> ELSE <<new[1]>>

PushUnvisited(order, v) == SelectSeq(order, LAMBDA nn : nn \notin Range(v))

\* one pass of the while loop on worklist fr, visited list v and edges e: pop
\* the front node n, then walk its neighbours in the order `order`
ExpandResult(fr, v, e, order, o, snodes) ==
  LET n   == Head(fr)
      v1  == MarkVisited(v, n)
      f1  == Tail(fr)                            \* frontier.remove(n): first occurrence
      e1  == EnsureKey(e, n)
      acc == {nn \in Range(order) : AcceptEdge(o, snodes, nn, nn \in Range(v1))}
  IN  [visited  |-> v1,
       frontier |-> f1 \o PushUnvisited(order, v1),
       edges    |-> [e1 EXCEPT ![n] = @ \cup acc],
       ignored  |-> Cardinality(Range(order) \ acc)]

ExpandNode(order) ==
  LET r == ExpandResult(frontier, visited, edges, order, opts, somanodes)
  IN  /\ visited' = r.visited
      /\ frontier' = r.frontier
      /\ edges' = r.edges
      /\ warn_counts' = Incr(warn_counts, k_WARN_IGNORED_EDGES, r.ignored)
      /\ nodesgraph' = Touch(nodesgraph, Head(frontier))

\* ----------------------------------------------- create_node_segments_dict
AppendTo(ns, k, s) ==
  IF k \in DOMAIN ns THEN [ns EXCEPT ![k] = Append(@, s)] ELSE ns @@ (k :> <<s>>)

ReversedCopyKeepPoints(s) == [s EXCEPT !.start = s.end, !.end = s.start]

ReversedCopy(s) ==
  [s EXCEPT !.start = s.end, !.end = s.start, !.points = Reverse(s.points)]

HasEdge(dgraph, a, b) == a \in DOMAIN dgraph /\ b \in dgraph[a]

OrientSegmentForwardOnly(ns, dgraph, s) ==
  IF HasEdge(dgraph, s.start, s.end) THEN AppendTo(ns, s.start, s) ELSE ns

OrientSegment(ns, dgraph, s) ==
  LET ns1 == IF HasEdge(dgraph, s.start, s.end) THEN AppendTo(ns, s.start, s) ELSE ns
      r   == ReversedCopy(s)
  IN  IF HasEdge(dgraph, s.end, s.start) THEN AppendTo(ns1, r.start, r) ELSE ns1

IsConnected(dgraph, s) ==
  HasEdge(dgraph, s.start, s.end) \/ HasEdge(dgraph, s.end, s.start)

RECURSIVE create_node_segments_dict(_, _, _, _)
create_node_segments_dict(segs, dgraph, ns, counts) ==
  IF segs = <<>> THEN [nodesegments |-> ns, warn_counts |-> counts]
  ELSE LET s == Head(segs)
       IN  create_node_segments_dict(
             Tail(segs), dgraph, OrientSegment(ns, dgraph, s),
             IF IsConnected(dgraph, s) THEN counts
             ELSE Incr(counts, k_WARN_UNCONNECTED_SEGMENTS, 1))

\* ------------------------------------------------- validate_graph_segments
SegsOf(ns, n) == IF n \in DOMAIN ns THEN ns[n] ELSE <<>>

StartIds(segs) == {segs[i].start : i \in DOMAIN segs}

EndIds(segs) == {segs[i].end : i \in DOMAIN segs}

\* the value create_morphology passes as `somanodes`; None and [] are both falsy
ValidatorSomaArg(o, snodes) == IF o.k_CONNECT_SOMA_SOMA THEN snodes ELSE <<>>

\* nodesegments[k] on the defaultdict inserts a missing key
EnsureSegs(ns, k) == IF k \in DOMAIN ns THEN ns ELSE ns @@ (k :> <<>>)

\* assertion of lines 420-422
NodeHasSegments(dgraph, ns, soma, nidx) ==
  \/ dgraph[nidx] = {}
  \/ nidx \in DOMAIN ns
  \/ (soma # <<>> /\ \A c \in dgraph[nidx] : c \in Range(soma))

\* assertions of lines 424-425
ChildrenAreEnds(dgraph, ns, nidx) ==
  \A cidx \in dgraph[nidx] : cidx \in EndIds(SegsOf(ns, nidx))

\* the first loop, over the DAG's keys in the order `order`; reading
\* nodesegments[nidx] inserts the key
RECURSIVE ValidateDag(_, _, _, _)
ValidateDag(order, dgraph, ns, soma) ==
  IF order = <<>> THEN [ok |-> TRUE, nodesegments |-> ns]
  ELSE LET nidx == Head(order)
       IN  IF ~NodeHasSegments(dgraph, ns, soma, nidx)
           THEN [ok |-> FALSE, nodesegments |-> ns]
           ELSE LET ns1 == EnsureSegs(ns, nidx)
                IN  IF ~ChildrenAreEnds(dgraph, ns1, nidx)
                    THEN [ok |-> FALSE, nodesegments |-> ns1]
                    ELSE ValidateDag(Tail(order), dgraph, ns1, soma)

ValidKeyNoEndTest(dgraph, ns, nidx) ==
  /\ nidx \in DOMAIN dgraph
  /\ (StartIds(ns[nidx]) = {} \/ StartIds(ns[nidx]) = {nidx})

\* the second loop's assertions for one key (lines 428-435)
ValidKey(dgraph, ns, nidx) ==
  /\ nidx \in DOMAIN dgraph
  /\ (StartIds(ns[nidx]) = {} \/ StartIds(ns[nidx]) = {nidx})
  /\ \A cidx \in EndIds(ns[nidx]) : cidx \in DOMAIN dgraph

validate_graph_segments(order, dgraph, ns, soma) ==
  LET first == ValidateDag(order, dgraph, ns, soma)
  IN  [ok |-> first.ok /\ \A nidx \in DOMAIN first.nodesegments :
                              ValidKey(dgraph, first.nodesegments, nidx),
       nodesegments |-> first.nodesegments]

\* ------------------------------------------------------ vector arithmetic
square(x) == x * x

distance_squared(v1, v2) ==
  square(v1[1] - v2[1]) + square(v1[2] - v2[2]) + square(v1[3] - v2[3])

\* vlength(vect) squared: the model keeps lengths as integer squares
vlength_sqr(vect) == square(vect[1]) + square(vect[2]) + square(vect[3])

vmuls3(v, x) == <<v[1] * x, v[2] * x, v[3] * x>>

vadds3(v, x) == <<v[1] + x, v[2] + x, v[3] + x>>

vsubs3(v, x) == <<v[1] - x, v[2] - x, v[3] - x>>

vsub3(v1, v2) == <<v1[1] - v2[1], v1[2] - v2[2], v1[3] - v2[3]>>

Min(a, b) == IF a <= b THEN a ELSE b

Max(a, b) == IF a >= b THEN a ELSE b

vmin3(v1, v2) == <<Min(v1[1], v2[1]), Min(v1[2], v2[2]), Min(v1[3], v2[3])>>

vmax3(v1, v2) == <<Max(v1[1], v2[1]), Max(v1[2], v2[2]), Max(v1[3], v2[3])>>

v3_to_aabb(v1, v2) == <<vmin3(v1, v2), vmax3(v1, v2)>>

adjust_aabb(aabb, n) == v3_to_aabb(vsubs3(aabb[1], n), vadds3(aabb[2], n))

inside_aabb(aabb, v) ==
  /\ \A i \in 1..3 : aabb[1][i] < v[i]
  /\ \A i \in 1..3 : aabb[2][i] > v[i]

\* options.stack_AABB = None
NoAABB == <<>>

is_cut_point(pos, aabb) == IF aabb = NoAABB THEN FALSE ELSE ~inside_aabb(aabb, pos)

\* the offset of v from centre, at least min_length long.  The result is kept
\* as the offset's direction and its squared length: a clamped offset is the
\* normalised direction times min_length, the zero offset stays zero.
vadjust_offset_length3(v, centre, min_length) ==
  LET nv == vsub3(v, centre)
      m2 == vlength_sqr(nv)
  IN  IF min_length < 0 \/ m2 > square(min_length)
      THEN [dir |-> nv, len2 |-> m2]
      ELSE [dir |-> nv, len2 |-> IF m2 = 0 THEN 0 ELSE square(min_length)]

\* vmuls3 on an adjusted offset
ScaleOffset(a, x) == [dir |-> vmuls3(a.dir, x), len2 |-> a.len2 * square(x)]

\* vlength(a) > len and vlength(a) >= len on an adjusted offset
LongerThan(a, len) == len < 0 \/ a.len2 > square(len)

AtLeast(a, len) == len <= 0 \/ a.len2 >= square(len)

debug_scale_cut_point_diameter(scaled_diameter, scale) ==
  Max(2 * scale, scaled_diameter * 5)

\* ------------------------------------------------------ collect_soma_nodes
InSoma(sn, fr, nidx) == distance_squared(fr.centre, sn[nidx].pos) <= square(fr.radius)

collect_soma_nodes(sn, fr) == {nidx \in DOMAIN sn : InSoma(sn, fr, nidx)}

\* --------------------------------------------------------- morphology sink
Soma == [kind |-> "soma", id |-> 0]

NoSection == [kind |-> "none", id |-> 0]

NoPos == [dir |-> <<0, 0, 0>>, len2 |-> 0]

\* one call on the BBPSDK objects: Morphology(), surface_points().insert,
\* grow with a Section_Type (a new section `new`), grow without one (a new
\* point on section h), move_point, mark_cut_point, label, write
SinkCall(op, h, pos, diameter, new) ==
  [op |-> op, h |-> h, pos |-> pos, diameter |-> diameter, new |-> new]

NewSection(log) ==
  [kind |-> "section",
   id |-> 1 + Cardinality({i \in DOMAIN log : log[i].op = "grow"})]

\* nodes[npos] = handle
Register(table, npos, handle) ==
  IF npos \in DOMAIN table THEN [table EXCEPT ![npos] = handle]
  ELSE table @@ (npos :> handle)

\* stats.node_grow_stats[h].append(p)
StatAppend(stats, h, p) ==
  IF h \in DOMAIN stats THEN [stats EXCEPT ![h] = Append(@, p)]
  ELSE stats @@ (h :> <<p>>)

\* ---------------------------------------------------------------- grow_soma
\* the body of the inner loop for one oriented segment of a root; w is the
\* record of the objects the growth stages mutate
GrowSomaSegmentUnregistered(w, segm, o, fr) ==
  LET ndata == segm.points[1]
      npos  == ndata.pos
      snpos == vadjust_offset_length3(npos, fr.centre, fr.radius)
  IN  IF o.k_INFLATE_SOMA
      THEN [w EXCEPT
              !.sink = Append(@, SinkCall("surface_point", Soma,
                                          ScaleOffset(snpos, o.k_SCALING_FACTOR), 0, NoSection)),
              !.nodes = Register(@, npos, Soma)]
      ELSE LET snpos2 == IF o.verbosity_level < DEBUG
                         THEN vadjust_offset_length3(npos, fr.centre, 0) ELSE snpos
               spos   == ScaleOffset(snpos2, o.k_SCALING_FACTOR)
               node   == NewSection(w.sink)
           IN  [w EXCEPT
                  !.sink = @ \o <<SinkCall("grow", Soma, spos,
                                           ndata.diameter * o.k_SCALING_FACTOR, node),
                                  SinkCall("move_point", node, spos, 0, NoSection)>>,
                  !.node_grow_stats = StatAppend(@, Soma, snpos2)]

GrowSomaSegment(w, segm, o, fr) ==
  LET ndata == segm.points[1]
      npos  == ndata.pos
      snpos == vadjust_offset_length3(npos, fr.centre, fr.radius)
  IN  IF o.k_INFLATE_SOMA
      THEN [w EXCEPT
              !.sink = Append(@, SinkCall("surface_point", Soma,
                                          ScaleOffset(snpos, o.k_SCALING_FACTOR), 0, NoSection)),
              !.nodes = Register(@, npos, Soma)]
      ELSE LET snpos2 == IF o.verbosity_level < DEBUG
                         THEN vadjust_offset_length3(npos, fr.centre, 0) ELSE snpos
               spos   == ScaleOffset(snpos2, o.k_SCALING_FACTOR)
               node   == NewSection(w.sink)
           IN  [w EXCEPT
                  !.sink = @ \o <<SinkCall("grow", Soma, spos,
                                           ndata.diameter * o.k_SCALING_FACTOR, node),
                                  SinkCall("move_point", node, spos, 0, NoSection)>>,
                  !.node_grow_stats = StatAppend(@, Soma, snpos2),
                  !.nodes = Register(@, npos, node)]

RECURSIVE GrowSomaSegments(_, _, _, _)
GrowSomaSegments(segs, w, o, fr) ==
  IF segs = <<>> THEN w
  ELSE GrowSomaSegments(Tail(segs), GrowSomaSegment(w, Head(segs), o, fr), o, fr)

\* the loop over somanodes; reading nodesegments[snode_idx] inserts the key
RECURSIVE grow_soma(_, _, _, _)
grow_soma(snodes, w, o, fr) ==
  IF snodes = <<>> THEN w
  ELSE LET snode_idx == Head(snodes)
           w1 == GrowSomaSegments(SegsOf(w.nodesegments, snode_idx), w, o, fr)
       IN  grow_soma(Tail(snodes),
                     [w1 EXCEPT !.nodesegments = EnsureSegs(@, snode_idx)], o, fr)

\* ------------------------------------------------------------ grow_segments
\* line 568: the point is far enough from the previously grown one
FarEnoughStrict(pos, prev_pos, threshold_sqr) ==
  distance_squared(pos.dir, prev_pos.dir) > threshold_sqr

FarEnoughFlipped(pos, prev_pos, threshold_sqr) ==
  distance_squared(pos.dir, prev_pos.dir) <= threshold_sqr

FarEnough(pos, prev_pos, threshold_sqr) ==
  distance_squared(pos.dir, prev_pos.dir) >= threshold_sqr

\* line 578: the first point of a segment is grown once it has left the soma
LeavesSoma(pos, diameter, o, fr) ==
  ~o.k_CLIP_INSIDE_SOMA \/ LongerThan(pos, fr.radius + diameter)

\* the loop over segm.points[1:-1]; st holds the loop's locals (section,
\* prev_pos, is_cut) and the objects it mutates
RECURSIVE WalkInterior(_, _, _, _, _)
WalkInterior(pts, node, st, o, fr) ==
  IF pts = <<>> THEN st
  ELSE
    LET pt     == Head(pts)
        pos    == vadjust_offset_length3(pt.pos, fr.centre, 0)
        spos   == ScaleOffset(pos, o.k_SCALING_FACTOR)
        is_cut == st.is_cut \/ is_cut_point(pt.pos, o.k_CUTPOINT_AABB)
        sd     == pt.diameter * o.k_SCALING_FACTOR
        sdiameter ==
          IF is_cut /\ o.verbosity_level <= DEBUG
          THEN debug_scale_cut_point_diameter(sd, o.k_SCALING_FACTOR) ELSE sd
        st1 ==
          IF st.section # NoSection
          THEN IF FarEnough(pos, st.prev_pos, o.k_SEGMENT_THRESHOLD_SQR)
               THEN [st EXCEPT
                       !.sink = @ \o <<SinkCall("extend", st.section, spos, sdiameter, NoSection)>>
                                  \o (IF is_cut
                                      THEN <<SinkCall("mark_cut", st.section, NoPos, 0, NoSection)>>
                                      ELSE <<>>),
                       !.prev_pos = pos]
               ELSE [st EXCEPT !.warn_counts = Incr(@, k_INFO_IGNORED_POSITIONS, 1)]
          ELSE IF LeavesSoma(pos, pt.diameter, o, fr)
               THEN LET new == NewSection(st.sink)
                    IN  [st EXCEPT
                           !.section = new,
                           !.sink = Append(@, SinkCall("grow", node, spos, sdiameter, new)),
                           !.node_grow_stats = StatAppend(@, node, pos),
                           !.prev_pos = pos]
               ELSE st
        st2 == [st1 EXCEPT !.is_cut = is_cut]
    IN  IF is_cut
        THEN [st2 EXCEPT !.warn_counts = Incr(@, k_WARN_CUT_NODES_FOUND, 1)]
        ELSE WalkInterior(Tail(pts), node, st2, o, fr)

Interior(points) == SubSeq(points, 2, Len(points) - 1)

\* lines 588-620: the end node of a segment
GrowEndNode(segm, node, st, o, fr) ==
  LET ndata   == segm.points[Len(segm.points)]
      npos    == ndata.pos
      nposadj == vadjust_offset_length3(npos, fr.centre, Max(0, fr.radius - ndata.diameter))
      is_cut  == st.is_cut \/ is_cut_point(npos, o.k_CUTPOINT_AABB)
      st1     == IF is_cut
                 THEN [st EXCEPT !.is_cut = TRUE,
                                 !.warn_counts = Incr(@, k_WARN_CUT_NODES_FOUND, 1)]
                 ELSE st
      section == IF st.section = NoSection
                    /\ (~o.k_CLIP_INSIDE_SOMA \/ AtLeast(nposadj, fr.radius + ndata.diameter))
                 THEN node ELSE st.section
  IN  IF npos \in DOMAIN st1.nodes THEN [st1 EXCEPT !.section = section]
      ELSE IF section # NoSection
      THEN LET spos == ScaleOffset(nposadj, o.k_SCALING_FACTOR)
               sd   == ndata.diameter * o.k_SCALING_FACTOR
               sdiameter ==
                 IF is_cut /\ o.verbosity_level <= DEBUG
                 THEN debug_scale_cut_point_diameter(sd, o.k_SCALING_FACTOR) ELSE sd
               new  == NewSection(st1.sink)
           IN  [st1 EXCEPT
                  !.section = section,
                  !.nodes = Register(@, npos, new),
                  !.sink = @ \o <<SinkCall("grow", section, spos, sdiameter, new)>>
                             \o (IF is_cut
                                 THEN <<SinkCall("mark_cut", new, NoPos, 0, NoSection)>>
                                 ELSE <<>>),
                  !.node_grow_stats = StatAppend(@, section, nposadj)]
      ELSE [st1 EXCEPT !.nodes = Register(@, npos, node)]

\* one segment with at least two samples whose start node is grown and not cut
GrowSegment(segm, node, w, o, fr) ==
  LET st0 == [section |-> NoSection, prev_pos |-> NoPos, is_cut |-> FALSE,
              nodes |-> w.nodes, sink |-> w.sink, warn_counts |-> w.warn_counts,
              node_grow_stats |-> w.node_grow_stats]
      st1 == WalkInterior(Interior(segm.points), node, st0, o, fr)
      st2 == GrowEndNode(segm, node, st1, o, fr)
  IN  [w EXCEPT !.nodes = st2.nodes, !.sink = st2.sink,
                !.warn_counts = st2.warn_counts,
                !.node_grow_stats = st2.node_grow_stats]

\* line 544: the start sample of the parent is a cut point
ParentIsCutNever(npos, o) == FALSE

ParentIsCut(npos, o) == is_cut_point(npos, o.k_CUTPOINT_AABB)

\* the loop over the segments of pnode_idx (lines 528-620); the result says
\* whether an assertion failed and whether the loop ended at a cut parent
RECURSIVE GrowNodeSegments(_, _, _, _, _)
GrowNodeSegments(segs, pnode_idx, r, o, fr) ==
  IF segs = <<>> THEN r
  ELSE
    LET segm == Head(segs)
    IN  IF segm.start # pnode_idx THEN [r EXCEPT !.failed = TRUE]
        ELSE IF Len(segm.points) < 2
        THEN GrowNodeSegments(Tail(segs), pnode_idx, r, o, fr)
        ELSE LET npos == segm.points[1].pos
             IN  IF npos \notin DOMAIN r.w.nodes THEN [r EXCEPT !.failed = TRUE]
                 ELSE IF ParentIsCut(npos, o)
                 THEN [r EXCEPT !.is_parent_cut = TRUE]
                 ELSE GrowNodeSegments(
                        Tail(segs), pnode_idx,
                        [r EXCEPT !.w = GrowSegment(segm, r.w.nodes[npos], r.w, o, fr)],
                        o, fr)

ChildDepthKept(depth) == depth

\* depth - 1 if depth > 0 else -1
ChildDepth(depth) == IF depth > 0 THEN depth - 1 ELSE -1

\* AssertionError leaves create_morphology and main; nothing follows it
AfterAssertSwallowed(ok, nextpc) == nextpc

AfterAssert(ok, nextpc) == IF ok THEN nextpc ELSE "aborted"

\* ------------------------------------------------------------------ inputs
\* the amiramesh reader's node and segment records: the first and last sample
\* of a segment are its endpoint nodes
Point(p, d) == [pos |-> p, diameter |-> d]

NodePoint(sn, n) == Point(sn[n].pos, sn[n].diameter)

MkSegment(sn, i, a, b, interior) ==
  [id |-> i, start |-> a, end |-> b,
   points |-> <<NodePoint(sn, a)>> \o interior \o <<NodePoint(sn, b)>>]

\* a segment the reader delivered with a single sample
MkShortSegment(sn, i, a, b) ==
  [id |-> i, start |-> a, end |-> b, points |-> <<NodePoint(sn, a)>>]

\* nodes on a line, node n at x = n + 1; from the third on they are thicker
LineNodes == [n \in Nodes |-> [pos |-> <<n + 1, 0, 0>>, diameter |-> IF n >= 3 THEN 2 ELSE 1]]

EndpointLists == UNION {[1..k -> Nodes \X Nodes] : k \in 0..MaxSegs}

RootLists == UNION {Orderings(S) : S \in SUBSET Nodes}

EmptyFn == [x \in {} |-> {}]

ZeroCounts == [k \in WarnKeys |-> 0]

\* main's options class with its defaults (lines 763-770)
DefaultOptions ==
  [verbosity_level |-> INFO, allow_cycles |-> FALSE, threshold_segment_length |-> 0,
   scaling_factor |-> 1, stack_AABB |-> NoAABB, graph_depth |-> -1]

SomaCentre == <<1, 0, 0>>

NoSimp ==
  [pts |-> <<>>, t1 |-> 0, t2 |-> 0, grown1 |-> 0, grown2 |-> 0, ignored1 |-> 0, ignored2 |-> 0]

\* any order: the iteration order of a set or dict is the interpreter's
AnyOrder == [fixed |-> FALSE, perm |-> <<>>]

\* one interpreter: a set of node ids is always iterated in the same order
FixedOrder(perm) == [fixed |-> TRUE, perm |-> perm]

\* the orders in which `for x in S` can yield the elements of S
IterOrders(S) ==
  IF iter.fixed THEN {SelectSeq(iter.perm, LAMBDA x : x \in S)} ELSE Orderings(S)

NoPrior == [pc |-> "none", keys |-> {}, counts |-> ZeroCounts]

\* no stack section in the annotations, or main has read it
NoStack == [v1 |-> <<>>, v2 |-> <<>>]

\* what every run starts from, whatever its inputs
InitRun ==
  /\ nodesgraph = EmptyFn
  /\ edges = EmptyFn
  /\ visited = <<>>
  /\ frontier = <<>>
  /\ warn_counts = ZeroCounts
  /\ nodesegments = EmptyFn
  /\ valid = "none"
  /\ nodes = EmptyFn
  /\ grown_visited = <<>>
  /\ calls = <<>>
  /\ sink = <<>>
  /\ node_grow_stats = EmptyFn
  /\ outfile = "absent"
  /\ raised = FALSE
  /\ prior = NoPrior

\* the graph stages on every segment list and every root list
Init ==
  /\ pc = "graph"
  /\ skelnodes = LineNodes
  /\ \E ep \in EndpointLists :
       segments = [i \in DOMAIN ep |-> MkSegment(LineNodes, i, ep[i][1], ep[i][2], <<>>)]
  /\ somanodes \in RootLists
  /\ \E v \in {NOTSET, INFO}, ac \in BOOLEAN :
       opts = MorphOptions([DefaultOptions EXCEPT !.verbosity_level = v, !.allow_cycles = ac])
  /\ frame = [centre |-> SomaCentre, radius |-> 1]
  /\ simp = NoSimp
  /\ iter = AnyOrder
  /\ stack = NoStack
  /\ InitRun

\* ----------------------------------------------------------------- actions
\* soma_node_idxs = collect_soma_nodes(...), in the order the dict yields them
CollectSoma ==
  /\ pc = "start"
  /\ somanodes' \in IterOrders(collect_soma_nodes(skelnodes, frame))
  /\ pc' = "graph"
  /\ UNCHANGED <<inputVars, graphVars, warn_counts, nodesegments, valid, restVars>>

\* node_idx_graph = create_node_graph(skel), and the entry of create_directed_graph
BuildGraph ==
  /\ pc = "graph"
  /\ nodesgraph' = create_node_graph(segments)
  /\ frontier' = InitFrontier(somanodes)
  /\ pc' = "dag"
  /\ UNCHANGED <<inputVars, somanodes, edges, visited, warn_counts, nodesegments, valid,
                 restVars>>

\* one iteration of `while frontier`
Expand ==
  /\ pc = "dag"
  /\ frontier # <<>>
  /\ \E order \in IterOrders(Neighbours(nodesgraph, Head(frontier))) : ExpandNode(order)
  /\ UNCHANGED <<pc, inputVars, somanodes, nodesegments, valid, restVars>>

\* `return edges`, then node_segments = create_node_segments_dict(...)
OrientSegments ==
  /\ pc = "dag"
  /\ frontier = <<>>
  /\ LET r == create_node_segments_dict(segments, edges, EmptyFn, warn_counts)
     IN  /\ nodesegments' = r.nodesegments
         /\ warn_counts' = r.warn_counts
  /\ pc' = "validate"
  /\ UNCHANGED <<inputVars, somanodes, graphVars, valid, restVars>>

\* validate_graph_segments(dag_nodes, node_segments, ...): an AssertionError
\* leaves create_morphology
Validate ==
  /\ pc = "validate"
  /\ \E order \in IterOrders(DOMAIN edges) :
       LET r == validate_graph_segments(order, edges, nodesegments,
                                        ValidatorSomaArg(opts, somanodes))
       IN  /\ nodesegments' = r.nodesegments
           /\ valid' = IF r.ok THEN "ok" ELSE "fail"
           /\ raised' = ~r.ok
           /\ pc' = AfterAssert(r.ok, "grow_soma")
  /\ UNCHANGED <<inputVars, somanodes, graphVars, warn_counts, growVars, simp, prior>>

\* the objects the growth stages mutate, as one record
World ==
  [nodes |-> nodes, sink |-> sink, warn_counts |-> warn_counts,
   node_grow_stats |-> node_grow_stats, nodesegments |-> nodesegments]

\* morphology = Morphology(); nodes = {}; grow_soma(...); visited = [] and the
\* loop over soma_node_idxs, whose calls run one after the other
GrowSoma ==
  /\ pc = "grow_soma"
  /\ LET created == <<SinkCall("create", Soma, NoPos, 0, NoSection)>>
         debug   == IF opts.verbosity_level <= DEBUG
                    THEN <<SinkCall("debug_soma", Soma, NoPos, 0, NoSection)>> ELSE <<>>
         w == grow_soma(somanodes, [World EXCEPT !.sink = created \o debug], opts, frame)
     IN  /\ nodes' = w.nodes
         /\ sink' = w.sink
         /\ node_grow_stats' = w.node_grow_stats
         /\ nodesegments' = w.nodesegments
  /\ calls' = [i \in DOMAIN somanodes |-> [node |-> somanodes[i], depth |-> opts.graph_depth]]
  /\ pc' = "grow"
  /\ UNCHANGED <<inputVars, somanodes, graphVars, warn_counts, valid, grown_visited,
                 outfile, raised, simp, prior>>

AlreadyGrownNever(v, n) == FALSE

\* pnode_idx in visited (line 512)
AlreadyGrown(v, n) == n \in Range(v)

\* one call of grow_segments, up to its recursive calls
GrowCall ==
  /\ pc = "grow"
  /\ calls # <<>>
  /\ LET c == Head(calls)
     IN  IF c.depth = 0
         THEN /\ warn_counts' = Incr(warn_counts, k_WARN_MAX_GROW_DEPTH_REACHED, 1)
              /\ calls' = Tail(calls)
              /\ UNCHANGED <<pc, nodes, grown_visited, sink, node_grow_stats, nodesegments,
                             raised>>
         ELSE IF AlreadyGrown(grown_visited, c.node)
         THEN /\ calls' = Tail(calls)
              /\ UNCHANGED <<pc, nodes, grown_visited, sink, node_grow_stats, nodesegments,
                             warn_counts, raised>>
         ELSE LET r == GrowNodeSegments(
                         SegsOf(nodesegments, c.node), c.node,
                         [w |-> World, failed |-> FALSE, is_parent_cut |-> FALSE],
                         opts, frame)
              IN  /\ grown_visited' = Append(grown_visited, c.node)
                  /\ nodesegments' = EnsureSegs(nodesegments, c.node)
                  /\ nodes' = r.w.nodes
                  /\ sink' = r.w.sink
                  /\ warn_counts' = r.w.warn_counts
                  /\ node_grow_stats' = r.w.node_grow_stats
                  /\ raised' = r.failed
                  /\ pc' = AfterAssert(~r.failed, "grow")
                  /\ IF r.failed \/ r.is_parent_cut
                     THEN calls' = Tail(calls)
                     ELSE \E order \in IterOrders(edges[c.node]) :
                            calls' = [i \in DOMAIN order |->
                                        [node |-> order[i], depth |-> ChildDepth(c.depth)]]
                                     \o Tail(calls)
  /\ UNCHANGED <<inputVars, somanodes, graphVars, valid, outfile, simp, prior>>

\* create_morphology returns the morphology
Finish ==
  /\ pc = "grow"
  /\ calls = <<>>
  /\ pc' = "file"
  /\ UNCHANGED <<inputVars, somanodes, graphVars, warn_counts, nodesegments, valid,
                 restVars>>

\* create_morphology_file: label the morphology and write it; an OSError of
\* the writer is swallowed
Persist ==
  /\ pc = "file"
  /\ sink' = Append(sink, SinkCall("label", Soma, NoPos, 0, NoSection))
  /\ \E oserror \in BOOLEAN : outfile' = IF oserror THEN outfile ELSE "written"
  /\ pc' = "done"
  /\ UNCHANGED <<inputVars, somanodes, graphVars, warn_counts, nodesegments, valid,
                 nodes, grown_visited, calls, node_grow_stats, raised, simp, prior>>

Next == BuildGraph \/ Expand \/ OrientSegments \/ Validate

Spec == Init /\ [][Next]_vars

\* create_directed_graph alone; its loop keeps running until the worklist is
\* empty
NextDag == BuildGraph \/ Expand

SpecTerminate == Init /\ [][NextDag]_vars /\ WF_vars(NextDag)

\* ------------------------------------------------------- whole conversions
GrowIds == {1, 2, 3}

GrowNodes == [n \in GrowIds |-> LineNodes[n]]

\* interior samples: one beside the first node, inside the soma's clip
\* distance, and one beyond the last node
InteriorPoints == {Point(<<2, 1, 0>>, 1), Point(<<5, 0, 0>>, 1)}

\* what a segment carries between its end samples; a short segment has a
\* single sample
Shape(short, interior) == [short |-> short, interior |-> interior]

TopoShapes ==
  {Shape(TRUE, <<>>), Shape(FALSE, <<>>), Shape(FALSE, <<Point(<<5, 0, 0>>, 1)>>)}

GeomShapes ==
  {Shape(FALSE, s) : s \in UNION {[1..k -> InteriorPoints] : k \in 0..MaxInterior}}

ShapedSegment(sn, i, a, b, shape) ==
  IF shape.short THEN MkShortSegment(sn, i, a, b)
  ELSE MkSegment(sn, i, a, b, shape.interior)

StackAABBGrown(v1, v2) == adjust_aabb(v3_to_aabb(v1, v2), 1)

\* the stack box of the annotations, moved by adjust_amt = -1.0 (lines 806-816)
StackAABB(v1, v2) == adjust_aabb(v3_to_aabb(v1, v2), -1)

\* x = 5 is outside, the nodes are inside
BoxInteriorCut == StackAABB(<<-1, -3, -3>>, <<6, 3, 3>>)

\* the third node, at x = 4, is outside as well
BoxEndCut == StackAABB(<<-1, -3, -3>>, <<5, 3, 3>>)

\* the first node, at x = 2, is outside
BoxRootCut == StackAABB(<<1, -3, -3>>, <<6, 3, 3>>)

\* every list of up to MaxGrowSegs segments on three nodes, plain geometry
TopoCases ==
  {[nodes |-> GrowNodes, ep |-> ep, shapes |-> sh, radius |-> r, aabb |-> b, verbosity |-> v,
    cycles |-> ac, threshold |-> 0, depth |-> -1] :
     ep \in UNION {[1..k -> GrowIds \X GrowIds] : k \in 0..MaxGrowSegs},
     sh \in [1..MaxGrowSegs -> TopoShapes],
     r \in {1, 2}, b \in {NoAABB}, v \in {NOTSET, INFO}, ac \in BOOLEAN}

TwoSegmentTrees ==
  {<<<<1, 2>>, <<2, 3>>>>, <<<<1, 2>>, <<3, 2>>>>, <<<<1, 3>>, <<1, 2>>>>, <<<<1, 3>>, <<3, 2>>>>}

\* two-segment trees from node 1, every geometry
GeomCases ==
  {[nodes |-> GrowNodes, ep |-> ep, shapes |-> sh, radius |-> r, aabb |-> b, verbosity |-> v,
    cycles |-> FALSE, threshold |-> t, depth |-> d] :
     ep \in TwoSegmentTrees,
     sh \in [1..2 -> GeomShapes],
     r \in {1, 2}, b \in {NoAABB, BoxInteriorCut, BoxEndCut, BoxRootCut},
     v \in {NOTSET, INFO}, t \in {0, 4}, d \in {-1}}

Triangles ==
  {<<<<1, 2>>, <<2, 3>>, <<1, 3>>>>, <<<<1, 3>>, <<3, 2>>, <<2, 1>>>>}

\* a triangle: a node below a cut that a second path reaches
TriangleCases ==
  {[nodes |-> GrowNodes, ep |-> ep, shapes |-> sh, radius |-> 1, aabb |-> b, verbosity |-> v,
    cycles |-> ac, threshold |-> 0, depth |-> d] :
     ep \in Triangles,
     sh \in [1..3 -> {Shape(FALSE, <<>>), Shape(FALSE, <<Point(<<5, 0, 0>>, 1)>>)}],
     b \in {NoAABB, BoxInteriorCut, BoxEndCut},
     v \in {NOTSET, INFO}, ac \in BOOLEAN, d \in {-1, 1, MaxDepth}}

\* node i of a path at x = i + 1
PathNodes(n) == [i \in 1..n |-> [pos |-> <<i + 1, 0, 0>>, diameter |-> 1]]

\* the segment between nodes i and i + 1 of a path, read in either direction
PathEndpoints(n) ==
  {ep \in [1..(n - 1) -> (1..n) \X (1..n)] :
     \A i \in 1..(n - 1) : ep[i] \in {<<i, i + 1>>, <<i + 1, i>>}}

\* path graphs 1-2-...-n, the first node in the soma
PathCasesOf(n) ==
  {[nodes |-> PathNodes(n), ep |-> ep, shapes |-> [i \in 1..(n - 1) |-> Shape(FALSE, <<>>)],
    radius |-> 1, aabb |-> NoAABB, verbosity |-> v, cycles |-> FALSE,
    threshold |-> 0, depth |-> d] :
     ep \in PathEndpoints(n), v \in {NOTSET, INFO}, d \in {-1, MaxDepth}}

PathCases == UNION {PathCasesOf(n) : n \in 1..MaxPath}

InitCase(c) ==
  /\ pc = "start"
  /\ skelnodes = c.nodes
  /\ segments = [i \in DOMAIN c.ep |->
                   ShapedSegment(c.nodes, i, c.ep[i][1], c.ep[i][2], c.shapes[i])]
  /\ somanodes = <<>>
  /\ opts = MorphOptions([DefaultOptions EXCEPT
                            !.verbosity_level = c.verbosity, !.allow_cycles = c.cycles,
                            !.threshold_segment_length = c.threshold,
                            !.stack_AABB = c.aabb, !.graph_depth = c.depth])
  /\ frame = [centre |-> SomaCentre, radius |-> c.radius]
  /\ simp = NoSimp
  /\ InitRun

InitGrow ==
  /\ iter = AnyOrder
  /\ stack = NoStack
  /\ \E c \in TopoCases \cup GeomCases \cup TriangleCases \cup PathCases : InitCase(c)

NextGrow ==
  \/ CollectSoma
  \/ BuildGraph
  \/ Expand
  \/ OrientSegments
  \/ Validate
  \/ GrowSoma
  \/ GrowCall
  \/ Finish
  \/ Persist

SpecGrow == InitGrow /\ [][NextGrow]_vars

\* ------------------------------------------------- the annotated stack box
\* corners of an annotated box: any extent along x, none or all along y and z
BoxCorners == {<<x, y, z>> : x \in 0..MaxBox, y \in {0, MaxBox}, z \in {0, MaxBox}}

\* the positions a sample can have
BoxPoints == {<<x, y, z>> : x \in 0..MaxBox, y \in 0..MaxBox, z \in 0..MaxBox}

\* main is about to read a stack section with any two corners
InitStack ==
  /\ pc = "annotate"
  /\ skelnodes = LineNodes
  /\ segments = <<>>
  /\ somanodes = <<>>
  /\ opts = MorphOptions(DefaultOptions)
  /\ frame = [centre |-> SomaCentre, radius |-> 1]
  /\ simp = NoSimp
  /\ iter = AnyOrder
  /\ \E v1 \in BoxCorners, v2 \in BoxCorners : stack = [v1 |-> v1, v2 |-> v2]
  /\ InitRun

\* options.set_annotation_data: options.stack_AABB = adjust_aabb(..., adjust_amt),
\* which create_morphology hands to the growth as k_CUTPOINT_AABB
ReadStack ==
  /\ pc = "annotate"
  /\ opts' = MorphOptions([DefaultOptions EXCEPT !.stack_AABB = StackAABB(stack.v1, stack.v2)])
  /\ pc' = "annotated"
  /\ UNCHANGED <<skelnodes, segments, frame, iter, stack, somanodes, graphVars, warn_counts,
                 nodesegments, valid, restVars>>

SpecStack == InitStack /\ [][ReadStack]_vars

\* ------------------------------------------- the loop under a fixed order
\* undirected graphs: create_node_graph files each segment under both its ends
UndirectedLists ==
  UNION {[1..k -> {e \in Nodes \X Nodes : e[1] < e[2]}] : k \in 0..MaxSegs}

\* create_directed_graph under each of the iteration orders of the node ids
InitOrdered ==
  /\ pc = "graph"
  /\ skelnodes = LineNodes
  /\ \E ep \in UndirectedLists :
       segments = [i \in DOMAIN ep |-> MkSegment(LineNodes, i, ep[i][1], ep[i][2], <<>>)]
  /\ somanodes \in RootLists
  /\ \E v \in {NOTSET, INFO}, ac \in BOOLEAN :
       opts = MorphOptions([DefaultOptions EXCEPT !.verbosity_level = v, !.allow_cycles = ac])
  /\ frame = [centre |-> SomaCentre, radius |-> 1]
  /\ simp = NoSimp
  /\ \E perm \in Orderings(Nodes) : iter = FixedOrder(perm)
  /\ stack = NoStack
  /\ InitRun

SpecOrdered == InitOrdered /\ [][NextDag]_vars

\* ------------------------------------------- the validator on any tables
\* directed graphs on the first MaxDagKey ids, children among all ids
DagTables ==
  UNION {[K -> SUBSET Nodes] : K \in SUBSET (1..MaxDagKey)}

\* what a key of the map holds: up to MaxMapSegs segments between any two ids
SegmentLists ==
  UNION {[1..k -> {MkSegment(LineNodes, 1, a, b, <<>>) : a \in Nodes, b \in Nodes}] :
           k \in 0..MaxMapSegs}

SegmentTables == UNION {[K -> SegmentLists] : K \in SUBSET Nodes}

\* validate_graph_segments is entered with any two tables
InitValidate ==
  /\ skelnodes = LineNodes
  /\ segments = <<>>
  /\ \E c \in {<<INFO, <<>>>>, <<INFO, <<MaxNode>>>>, <<NOTSET, <<MaxNode>>>>} :
       /\ opts = MorphOptions([DefaultOptions EXCEPT !.verbosity_level = c[1]])
       /\ somanodes = c[2]
  /\ frame = [centre |-> SomaCentre, radius |-> 1]
  /\ simp = NoSimp
  /\ iter = AnyOrder
  /\ stack = NoStack
  /\ nodesgraph = EmptyFn
  /\ edges \in DagTables
  /\ visited = <<>>
  /\ frontier = <<>>
  /\ warn_counts = ZeroCounts
  /\ nodesegments \in SegmentTables
  /\ valid = "none"
  /\ nodes = EmptyFn
  /\ grown_visited = <<>>
  /\ calls = <<>>
  /\ sink = <<>>
  /\ node_grow_stats = EmptyFn
  /\ outfile = "absent"
  /\ raised = FALSE
  /\ prior = NoPrior
  /\ pc = "validate"

SpecValidate == InitValidate /\ [][Validate]_vars

\* ------------------------------------------------ the same inputs, twice
\* morph_statistics is a class of create_morphology's body: a call starts
\* with new counters
CarriedCounts(counts) == counts

FreshCounts(counts) == ZeroCounts

\* create_morphology is entered again with the same skel, soma_data and options
Rerun ==
  /\ pc \in {"done", "aborted"}
  /\ prior = NoPrior
  /\ prior' = [pc |-> pc, keys |-> DOMAIN nodes, counts |-> warn_counts]
  /\ pc' = "start"
  /\ somanodes' = <<>>
  /\ nodesgraph' = EmptyFn
  /\ edges' = EmptyFn
  /\ visited' = <<>>
  /\ frontier' = <<>>
  /\ warn_counts' = FreshCounts(warn_counts)
  /\ nodesegments' = EmptyFn
  /\ valid' = "none"
  /\ nodes' = EmptyFn
  /\ grown_visited' = <<>>
  /\ calls' = <<>>
  /\ sink' = <<>>
  /\ node_grow_stats' = EmptyFn
  /\ raised' = FALSE
  /\ UNCHANGED <<inputVars, outfile, simp>>

\* triangles and two-segment trees, cut or not
TwiceCases ==
  {c \in TriangleCases : c.depth = -1}
  \cup {c \in GeomCases : c.threshold = 0 /\ c.radius = 1 /\ c.aabb \in {NoAABB, BoxEndCut}
                         /\ \A i \in DOMAIN c.shapes : Len(c.shapes[i].interior) <= 1}

InitTwice ==
  /\ \E perm \in Orderings(GrowIds) : iter = FixedOrder(perm)
  /\ stack = NoStack
  /\ \E c \in TwiceCases : InitCase(c)

NextTwice == NextGrow \/ Rerun

SpecTwice == InitTwice /\ [][NextTwice]_vars

\* ------------------------------------------- one segment, two thresholds
SimplifyGrid == {Point(<<x + 1, 0, 0>>, 1) : x \in 0..MaxCoord}

Thresholds == {0, 9, 16}

SimplifyCases ==
  {[NoSimp EXCEPT !.pts = pts, !.t1 = t1, !.t2 = t2] :
     pts \in UNION {[1..k -> SimplifyGrid] : k \in 0..MaxSimplify},
     t1 \in Thresholds, t2 \in Thresholds}

\* longer segments on three positions, at offsets 0, 3 and 5 from the centre
LongGrid == {Point(<<x + 1, 0, 0>>, 1) : x \in {0, 3, 5}}

LongCases ==
  {[NoSimp EXCEPT !.pts = pts, !.t1 = t, !.t2 = t] :
     pts \in [1..MaxLong -> LongGrid], t \in Thresholds}

InitSimplify ==
  /\ pc = "simplify"
  /\ skelnodes = LineNodes
  /\ segments = <<>>
  /\ somanodes = <<>>
  /\ \E v \in {NOTSET, INFO} :
       opts = MorphOptions([DefaultOptions EXCEPT !.verbosity_level = v])
  /\ frame = [centre |-> SomaCentre, radius |-> 1]
  /\ simp \in {c \in SimplifyCases : c.t1 <= c.t2} \cup LongCases
  /\ iter = AnyOrder
  /\ stack = NoStack
  /\ InitRun

\* the walk of lines 554-586 from handle `node` under threshold t
WalkUnder(pts, node, t, o, fr) ==
  LET st0 == [section |-> NoSection, prev_pos |-> NoPos, is_cut |-> FALSE,
              nodes |-> EmptyFn, sink |-> <<>>, warn_counts |-> ZeroCounts,
              node_grow_stats |-> EmptyFn]
  IN  WalkInterior(pts, node, st0, [o EXCEPT !.k_SEGMENT_THRESHOLD_SQR = t], fr)

\* the interior points it grows ...
GrownInterior(pts, node, t, o, fr) ==
  LET st == WalkUnder(pts, node, t, o, fr)
  IN  Cardinality({i \in DOMAIN st.sink : st.sink[i].op \in {"grow", "extend"}})

\* ... and the ones it counts as ignored
IgnoredInterior(pts, node, t, o, fr) ==
  WalkUnder(pts, node, t, o, fr).warn_counts[k_INFO_IGNORED_POSITIONS]

\* the same interior samples walked under both thresholds
Simplify ==
  /\ pc = "simplify"
  /\ simp' = [simp EXCEPT
                !.grown1 = GrownInterior(simp.pts, Soma, simp.t1, opts, frame),
                !.grown2 = GrownInterior(simp.pts, Soma, simp.t2, opts, frame),
                !.ignored1 = IgnoredInterior(simp.pts, Soma, simp.t1, opts, frame),
                !.ignored2 = IgnoredInterior(simp.pts, Soma, simp.t2, opts, frame)]
  /\ pc' = "simplified"
  /\ UNCHANGED <<inputVars, somanodes, graphVars, warn_counts, nodesegments, valid,
                 growVars, raised, prior>>

NextSimplify == Simplify

SpecSimplify == InitSimplify /\ [][NextSimplify]_vars

\* ------------------------------------------------------------------ claims
\* create_directed_graph has returned
DagReturned == pc # "graph" /\ (pc = "dag" => frontier = <<>>)

Roots == Range(somanodes)

\* the nodes connected to S in the undirected graph g
RECURSIVE ReachFrom(_, _)
ReachFrom(g, S) ==
  LET T == S \cup UNION {Neighbours(g, n) : n \in S}
  IN  IF T = S THEN S ELSE ReachFrom(g, T)

Reachable == ReachFrom(create_node_graph(segments), Roots)

\* C1: when create_directed_graph has returned, every node reachable from a
\* root in the undirected graph of create_node_graph is a key of the DAG.
C1_Reachability == DagReturned => Reachable \subseteq DOMAIN edges

\* a reachable non-root leaf is a key with no children, while another node is
\* not reachable at all
C1_Witness ==
  /\ DagReturned
  /\ \E n \in Reachable \ Roots : n \in DOMAIN edges /\ edges[n] = {}
  /\ Reachable # Nodes

Children(e, S) == UNION {e[n] : n \in S \cap DOMAIN e}

RECURSIVE Closure(_, _)
Closure(e, S) ==
  LET T == S \cup Children(e, S)
  IN  IF T = S THEN S ELSE Closure(e, T)

\* the nodes reached from n by one or more DAG edges
Descendants(e, n) == Closure(e, Children(e, {n}))

Acyclic(e) == \A n \in DOMAIN e : n \notin Descendants(e, n)

\* C2: with cycles disallowed the DAG returned by create_directed_graph has no
\* directed cycle: no node is its own descendant (so no self-edge either).
C2_Acyclic == (DagReturned /\ ~opts.k_ALLOW_CYCLES) => Acyclic(edges)

\* a triangle explored without cycles, one of whose nodes was popped twice
C2_Witness ==
  /\ DagReturned
  /\ ~opts.k_ALLOW_CYCLES
  /\ Cardinality(DOMAIN edges) = 3
  /\ \A n \in DOMAIN edges : Cardinality(Neighbours(nodesgraph, n) \ {n}) = 2
  /\ Len(visited) > Cardinality(Range(visited))
  /\ \E n \in DOMAIN edges : edges[n] # {}

NoEdgeIntoRoot == \A n \in DOMAIN edges : edges[n] \cap Roots = {}

\* every edge a step adds leaves the node being expanded and passes the
\* accept predicate, evaluated on the visited list of that expansion
EdgeAddedOnlyIfAccepted ==
  \A n \in DOMAIN edges' :
    \A nn \in edges'[n] \ (IF n \in DOMAIN edges THEN edges[n] ELSE {}) :
      /\ frontier # <<>> /\ n = Head(frontier)
      /\ (opts.k_CONNECT_SOMA_SOMA \/ nn \notin Roots)
      /\ (opts.k_ALLOW_CYCLES \/ nn \notin Range(visited'))

\* C3: with root-to-root edges disallowed the DAG never holds an edge into a
\* root, and an edge n -> nn enters the DAG only if (root-to-root allowed or nn
\* is not a root) and (cycles allowed or nn was unvisited when n was expanded).
C3_NoEdgeIntoRoot ==
  /\ [](~opts.k_CONNECT_SOMA_SOMA => NoEdgeIntoRoot)
  /\ [][EdgeAddedOnlyIfAccepted]_vars

\* two adjacent roots whose connecting edge was ignored, and an accepted edge
C3_Witness ==
  /\ DagReturned
  /\ ~opts.k_CONNECT_SOMA_SOMA
  /\ \E i \in DOMAIN segments :
       {segments[i].start, segments[i].end} \subseteq Roots
       /\ segments[i].start # segments[i].end
  /\ warn_counts[k_WARN_IGNORED_EDGES] > 0
  /\ \E n \in DOMAIN edges : edges[n] # {}

\* the checks of validate_graph_segments, stated on the DAG and the map
EngineOutputConsistent ==
  /\ \A a \in DOMAIN edges : \A b \in edges[a] :
       \E i \in DOMAIN SegsOf(nodesegments, a) : nodesegments[a][i].end = b
  /\ DOMAIN nodesegments \subseteq DOMAIN edges
  /\ \A k \in DOMAIN nodesegments : \A i \in DOMAIN nodesegments[k] :
       /\ nodesegments[k][i].start = k
       /\ nodesegments[k][i].end \in DOMAIN edges

\* C4: the DAG of create_directed_graph and the map of create_node_segments_dict
\* pass every validator check, so validate_graph_segments never raises.
C4_ValidatorNeverFails ==
  /\ pc \in {"validate", "grow_soma"} => EngineOutputConsistent
  /\ valid # "fail"
  /\ pc # "aborted"

\* the validator has accepted a map that holds a reversed segment and a DAG
\* with both directions of an edge
C4_Witness ==
  /\ valid = "ok"
  /\ \E k \in DOMAIN nodesegments : \E i \in DOMAIN nodesegments[k] :
       LET r == nodesegments[k][i]
       IN  r.start # segments[r.id].start /\ HasEdge(edges, r.end, r.start)

Count(S) == Cardinality(S)

\* the entries of the map that stem from input segment i, as (key, index) pairs
EntriesOf(i) ==
  {<<k, j>> \in (DOMAIN nodesegments) \X (1..(2 * Len(segments))) :
     j \in DOMAIN nodesegments[k] /\ nodesegments[k][j].id = i}

OrientationOf(i) ==
  LET s   == segments[i]
      fwd == HasEdge(edges, s.start, s.end)
      bwd == HasEdge(edges, s.end, s.start)
      r   == [id |-> i, start |-> s.end, end |-> s.start, points |-> Reverse(s.points)]
      E   == EntriesOf(i)
  IN  /\ Count(E) = (IF fwd THEN 1 ELSE 0) + (IF bwd THEN 1 ELSE 0)
      /\ fwd => \E e \in E : e[1] = s.start /\ nodesegments[e[1]][e[2]] = s
      /\ bwd => \E e \in E : e[1] = s.end /\ nodesegments[e[1]][e[2]] = r
      /\ \A e \in E : nodesegments[e[1]][e[2]] \in {s, r}

Unconnected == {i \in DOMAIN segments : ~IsConnected(edges, segments[i])}

\* C8: each input segment (a, b) is in map[a] unchanged iff the DAG has a -> b,
\* in map[b] with start/end swapped and points reversed iff the DAG has b -> a,
\* and adds exactly 1 to the unconnected counter, and nothing to the map, iff
\* neither edge is in the DAG.
C8_OrientationMapping ==
  pc \in {"validate", "grow_soma"} =>
    /\ \A i \in DOMAIN segments : OrientationOf(i)
    /\ warn_counts[k_WARN_UNCONNECTED_SEGMENTS] = Count(Unconnected)

\* one segment mapped in both directions, one reversed only, one unconnected
C8_Witness ==
  /\ pc = "validate"
  /\ Unconnected # {}
  /\ \E i \in DOMAIN segments :
       /\ segments[i].start # segments[i].end
       /\ HasEdge(edges, segments[i].start, segments[i].end)
       /\ HasEdge(edges, segments[i].end, segments[i].start)
  /\ \E i \in DOMAIN segments :
       /\ ~HasEdge(edges, segments[i].start, segments[i].end)
       /\ HasEdge(edges, segments[i].end, segments[i].start)

\* ---------------------------------------------------- claims on the growth
Pos(n) == skelnodes[n].pos

\* the sink position of node n: its offset from the soma centre, scaled
NodeOffset(n) == vmuls3(vsub3(Pos(n), frame.centre), opts.k_SCALING_FACTOR)

\* the grow calls that create a section at node n
GrowCallsFor(n) ==
  {i \in DOMAIN sink : sink[i].op = "grow" /\ sink[i].pos.dir = NodeOffset(n)}

\* C5: in one run every node, root or not, in inflate and in non-inflate soma
\* mode, is grown at most once: at most one sink grow call creates a section
\* for the node's position.
C5_SingleGrowth == \A n \in DOMAIN skelnodes : Count(GrowCallsFor(n)) <= 1

\* the oriented segments, as (key, index) pairs
OrientedSegments ==
  {<<k, j>> \in (DOMAIN nodesegments) \X (1..(2 * Len(segments))) :
     j \in DOMAIN nodesegments[k]}

SegmentAt(e) == nodesegments[e[1]][e[2]]

OutsideAABB(p) == opts.k_CUTPOINT_AABB # NoAABB /\ ~inside_aabb(opts.k_CUTPOINT_AABB, p)

RunEnded == pc \in {"file", "done"}

\* grow_segments ran the interior loop and the end-node step of s
Walked(s) ==
  /\ s.start \in Range(grown_visited)
  /\ Len(s.points) >= 2
  /\ ~OutsideAABB(s.points[1].pos)

InteriorCut(s) == \E k \in 2..(Len(s.points) - 1) : OutsideAABB(s.points[k].pos)

EndCut(s) == OutsideAABB(s.points[Len(s.points)].pos)

\* the nodes a root reaches in the DAG on a path that avoids c
RECURSIVE ReachAvoiding(_, _)
ReachAvoiding(S, c) ==
  LET T == S \cup (Children(edges, S) \ {c})
  IN  IF T = S THEN S ELSE ReachAvoiding(T, c)

\* the descendants of c that every path from a root reaches through c
OnlyThrough(c) == (Descendants(edges, c) \ {c}) \ ReachAvoiding(Roots \ {c}, c)

Grown(n) == Pos(n) \in DOMAIN nodes

C9_FailFast ==
  /\ sink # <<>> => valid = "ok"
  /\ raised => /\ outfile = "absent"
               /\ \A i \in DOMAIN sink : sink[i].op # "label"
               /\ pc = "aborted"

\* a growth-stage assertion raised after sections had been grown
C9_Witness ==
  /\ raised
  /\ valid = "ok"
  /\ \E i \in DOMAIN sink : sink[i].op \in {"grow", "surface_point"}
  /\ outfile = "absent"

\* grow_soma has returned and no grow_segments call has run yet
AfterGrowSoma ==
  pc = "grow" /\ grown_visited = <<>> /\ Len(calls) = Len(somanodes)
  /\ warn_counts[k_WARN_MAX_GROW_DEPTH_REACHED] = 0

\* C10 as stated: after grow_soma every root has an entry for its position.
C10_EveryRootEntered == AfterGrowSoma => \A r \in Roots : Grown(r)

RootSegments(r) == {e \in OrientedSegments : e[1] = r}

\* the positions grow_soma registers: the first sample of each root segment
RootFirstSamples ==
  {SegmentAt(e).points[1].pos : e \in UNION {RootSegments(r) : r \in Roots}}

\* C10, amended: after grow_soma a root has one entry for its position as soon
\* as an oriented segment starts at it with that position as first sample, the
\* entry is the soma in inflate mode and a section grown from the soma
\* otherwise, and the table has no entry beyond the first samples of the
\* roots' segments, so a root without oriented segments has none of its own.
C10_RootEntries ==
  AfterGrowSoma =>
    /\ \A r \in Roots :
         (\E e \in RootSegments(r) : SegmentAt(e).points[1].pos = Pos(r)) =>
           /\ Grown(r)
           /\ IF opts.k_INFLATE_SOMA THEN nodes[Pos(r)] = Soma
              ELSE \E i \in DOMAIN sink :
                     /\ sink[i].op = "grow" /\ sink[i].h = Soma
                     /\ sink[i].new = nodes[Pos(r)]
                     /\ sink[i].pos.dir = NodeOffset(r)
    /\ DOMAIN nodes = RootFirstSamples

\* two roots after grow_soma, one with two oriented segments and one entry,
\* the other with no segment and no entry
C10_Witness ==
  /\ AfterGrowSoma
  /\ \E r \in Roots : Count(RootSegments(r)) >= 2 /\ Grown(r)
  /\ \E r \in Roots : RootSegments(r) = {} /\ ~Grown(r)

\* ------------------------------------------- claims on the simplification
Simplified == pc = "simplified"

\* C7 as stated: for thresholds T2 >= T1 >= 0 the walk grows no more interior
\* points under T2 than under T1.
C7_Monotone == Simplified => simp.grown2 <= simp.grown1

\* C7, amended: against no simplification (T1 = 0) a threshold T2 >= 0 never
\* grows more interior points.
C7_NoMoreThanUnsimplified ==
  (Simplified /\ simp.t1 = 0) => simp.grown2 <= simp.grown1

\* a positive threshold dropped some, not all, of the points grown without one
C7_Witness ==
  /\ Simplified
  /\ simp.t1 = 0 /\ simp.t2 > 0
  /\ simp.grown2 >= 2
  /\ simp.grown2 < simp.grown1

\* ------------------------------------------------- claims on the scenarios
\* the segments form the path 1-2-...-n, read in either direction
PathLength == Len(segments) + 1

IsPathRun ==
  /\ pc \notin {"start", "simplify", "simplified"}
  /\ {{segments[i].start, segments[i].end} : i \in DOMAIN segments}
       = {{i, i + 1} : i \in 1..(PathLength - 1)}
  /\ Roots = {1}
  /\ ~opts.k_ALLOW_CYCLES
  /\ opts.k_SEGMENT_THRESHOLD_SQR = 0
  /\ opts.k_CUTPOINT_AABB = NoAABB
  /\ opts.graph_depth < 0

PathDag == [i \in 1..PathLength |-> IF i < PathLength THEN {i + 1} ELSE {}]

\* create_node_segments_dict has returned
Oriented == pc \in {"validate", "grow_soma", "grow", "file", "done", "aborted"}

AllSegmentsMapped ==
  /\ \A i \in DOMAIN segments : Count(EntriesOf(i)) = 1
  /\ warn_counts[k_WARN_UNCONNECTED_SEGMENTS] = 0

\* C11 as stated: a path graph rooted at node 1, without cycles, threshold or
\* AABB, ends its run with the DAG i -> i + 1, every segment in the oriented
\* map and every warning counter at zero, the ignored-edge counter included.
C11_PathZeroWarnings ==
  (IsPathRun /\ RunEnded) =>
    /\ edges = PathDag
    /\ AllSegmentsMapped
    /\ \A k \in WarnKeys : warn_counts[k] = 0

\* C11, amended: the DAG is i -> i + 1 and every segment is in the oriented
\* map, the ignored-edge counter is n - 1 (one for the edge back to the parent,
\* examined at each node after the first), and every other counter is zero at
\* the end of the run.
C11_PathBackEdgesCounted ==
  /\ (IsPathRun /\ Oriented) =>
       /\ edges = PathDag
       /\ AllSegmentsMapped
       /\ warn_counts[k_WARN_IGNORED_EDGES] = PathLength - 1
  /\ (IsPathRun /\ RunEnded) =>
       \A k \in WarnKeys \ {k_WARN_IGNORED_EDGES} : warn_counts[k] = 0

\* the four-node path of the scenario, one of its segments read backwards,
\* at the end of its run
C11_Witness ==
  /\ IsPathRun
  /\ RunEnded
  /\ PathLength = 4
  /\ \E i \in DOMAIN segments : segments[i].start > segments[i].end
  /\ warn_counts[k_WARN_IGNORED_EDGES] = 3
  /\ Cardinality(DOMAIN nodes) = 4

\* the segments are the three sides of the triangle on nodes 1, 2, 3
IsTriangleRun ==
  /\ DagReturned
  /\ Len(segments) = 3
  /\ {{segments[i].start, segments[i].end} : i \in DOMAIN segments}
       = {{1, 2}, {2, 3}, {1, 3}}
  /\ Roots = {1}
  /\ ~opts.k_ALLOW_CYCLES

\* the number of edges of the longest directed path from n in an acyclic e
RECURSIVE LongestFrom(_, _)
LongestFrom(e, n) ==
  IF n \notin DOMAIN e \/ e[n] = {} THEN 0
  ELSE LET below == {LongestFrom(e, c) : c \in e[n]}
       IN  1 + CHOOSE d \in below : \A x \in below : x <= d

LongestPath(e) ==
  LET from == {LongestFrom(e, n) : n \in DOMAIN e}
  IN  CHOOSE d \in from : \A x \in from : x <= d

\* C12 as stated: on the triangle rooted at node 1 without cycles exactly one
\* edge is rejected (ignored-edge counter 1), and the DAG is acyclic with a
\* longest directed path of 2 edges.
C12_TriangleOneIgnored ==
  IsTriangleRun =>
    /\ warn_counts[k_WARN_IGNORED_EDGES] = 1
    /\ Acyclic(edges)
    /\ LongestPath(edges) = 2

\* C12, amended: the DAG is 1 -> {2, 3} plus one edge between 2 and 3, acyclic
\* with a longest path of 2 edges, and the ignored-edge counter is 5: the
\* edges back to 1 from 2 and from 3, the edge back from the later of 2 and 3
\* to the earlier, and the last two again on the second worklist entry of
\* the later node.
C12_TriangleFiveIgnored ==
  IsTriangleRun =>
    /\ warn_counts[k_WARN_IGNORED_EDGES] = 5
    /\ Acyclic(edges)
    /\ LongestPath(edges) = 2
    /\ edges \in {(1 :> {2, 3}) @@ (2 :> {3}) @@ (3 :> {}),
                  (1 :> {2, 3}) @@ (2 :> {}) @@ (3 :> {2})}
    /\ Len(visited) = 4

\* the triangle explored from node 1, node 3 reached through node 2 as well
C12_Witness ==
  /\ IsTriangleRun
  /\ edges[2] = {3}
  /\ visited = <<1, 2, 3, 3>>
  /\ warn_counts[k_WARN_IGNORED_EDGES] = 5

\* the samples of s after the start sample that lie outside the AABB
OutsideSamples(s) == {k \in 2..Len(s.points) : OutsideAABB(s.points[k].pos)}

WalkedSegments == {e \in OrientedSegments : Walked(SegmentAt(e))}

\* C13: a walked segment with exactly one sample other than its start sample
\* outside the AABB, interior or end, adds exactly 1 to the cut-node counter:
\* in a finished run whose walked segments have at most one such sample, the
\* counter is the number of walked segments that have one.
C13_CutCountedOnce ==
  (RunEnded /\ \A e \in WalkedSegments : Count(OutsideSamples(SegmentAt(e))) <= 1) =>
    warn_counts[k_WARN_CUT_NODES_FOUND]
      = Count({e \in WalkedSegments : Count(OutsideSamples(SegmentAt(e))) = 1})

\* the index of the last grown sample among the first i interior samples of a
\* walk whose first sample is grown
RECURSIVE LastGrown(_, _, _)
LastGrown(pts, t, i) ==
  IF i = 1 THEN 1
  ELSE LET j == LastGrown(pts, t, i - 1)
       IN  IF distance_squared(pts[i].pos, pts[j].pos) >= t THEN i ELSE j

\* the samples closer than the threshold to the previously grown one
TooClose(pts, t) ==
  {i \in 2..Len(pts) :
     distance_squared(pts[i].pos, pts[LastGrown(pts, t, i - 1)].pos) < t}

FirstSampleGrown ==
  /\ simp.pts # <<>>
  /\ LeavesSoma(vadjust_offset_length3(simp.pts[1].pos, frame.centre, 0),
                simp.pts[1].diameter, opts, frame)

\* C14: when the first of the k interior samples is grown and no sample is a
\* cut point, the walk grows k - m points and counts m as ignored, m being
\* the number of samples closer than the threshold to the previously grown
\* point; a sample exactly at the threshold is grown.
C14_SimplificationCount ==
  (Simplified /\ FirstSampleGrown) =>
    LET k == Len(simp.pts)
        m == Count(TooClose(simp.pts, simp.t2))
    IN  /\ simp.grown2 = k - m
        /\ simp.ignored2 = m

\* five interior samples, three of them dropped, one grown exactly at the
\* threshold
C14_Witness ==
  /\ Simplified
  /\ FirstSampleGrown
  /\ Len(simp.pts) = 5
  /\ simp.t2 = 9
  /\ simp.grown2 = 2
  /\ simp.ignored2 = 3
  /\ \E i \in 2..5 :
       /\ i \notin TooClose(simp.pts, 9)
       /\ distance_squared(simp.pts[i].pos, simp.pts[LastGrown(simp.pts, 9, i - 1)].pos) = 9

\* -------------------------------------------- claims on the worklist loop
WorklistEmpty == pc = "dag" /\ frontier = <<>>

\* C15: for every graph, root list and option setting the worklist of
\* create_directed_graph eventually becomes empty, although a node can be
\* queued several times.
C15_Termination == <>WorklistEmpty

\* the loop has ended on a graph with a self-loop and two adjacent roots, with
\* cycles allowed, after popping some node twice
C15_Witness ==
  /\ WorklistEmpty
  /\ opts.k_ALLOW_CYCLES
  /\ \E i \in DOMAIN segments : segments[i].start = segments[i].end
  /\ \E i \in DOMAIN segments :
       segments[i].start # segments[i].end
       /\ {segments[i].start, segments[i].end} \subseteq Roots
  /\ Len(visited) > Cardinality(Range(visited))

\* the elements of a set of node ids in ascending order
RECURSIVE Ascending(_)
Ascending(S) ==
  IF S = {} THEN <<>>
  ELSE LET m == CHOOSE x \in S : \A y \in S : x <= y
       IN  <<m>> \o Ascending(S \ {m})

\* the DAG the loop returns when every neighbour set is walked in ascending
\* order
RECURSIVE DagAscending(_, _, _, _)
DagAscending(g, fr, v, e) ==
  IF fr = <<>> THEN e
  ELSE LET r == ExpandResult(fr, v, e, Ascending(Neighbours(g, Head(fr))), opts, somanodes)
       IN  DagAscending(g, r.frontier, r.visited, r.edges)

AscendingDag ==
  DagAscending(create_node_graph(segments), InitFrontier(somanodes), <<>>, EmptyFn)

\* C16 as stated: whatever the order in which the neighbours are walked, the
\* DAG returned is the same (the one of the ascending order), keys and edges.
C16_OrderIndependent == DagReturned => edges = AscendingDag

\* C16, amended: the key set of the DAG is the same for every neighbour order,
\* and with cycles allowed so is the edge set; with cycles disallowed the
\* edges between nodes first queued by the same expansion follow the order.
C16_KeysOrderIndependent ==
  DagReturned =>
    /\ DOMAIN edges = DOMAIN AscendingDag
    /\ opts.k_ALLOW_CYCLES => edges = AscendingDag

\* a triangle explored without cycles whose DAG has the edge 3 -> 2, where the
\* ascending order gives 2 -> 3
C16_Witness ==
  /\ IsTriangleRun
  /\ edges[3] = {2}
  /\ AscendingDag[2] = {3}
  /\ DOMAIN edges = DOMAIN AscendingDag

\* ------------------------------------------------ claims on a second run
SecondRunOver == prior # NoPrior /\ pc \in {"done", "aborted"}

ChildWithoutSegment(dgraph, ns) ==
  \E n \in DOMAIN dgraph : \E c \in dgraph[n] : c \notin EndIds(SegsOf(ns, n))

KeyOutsideDag(dgraph, ns) == \E k \in DOMAIN ns : k \notin DOMAIN dgraph

ForeignStart(ns) == \E k \in DOMAIN ns : \E i \in DOMAIN ns[k] : ns[k][i].start # k

EndOutsideDag(dgraph, ns) ==
  \E k \in DOMAIN ns : \E i \in DOMAIN ns[k] : ns[k][i].end \notin DOMAIN dgraph

Inconsistent(dgraph, ns) ==
  \/ ChildWithoutSegment(dgraph, ns)
  \/ KeyOutsideDag(dgraph, ns)
  \/ ForeignStart(ns)
  \/ EndOutsideDag(dgraph, ns)

\* C18: validate_graph_segments raises on every pair of tables in which a
\* child of the directed graph has no segment ending at it under its parent,
\* a key of the map is not a key of the graph, a segment is filed under a key
\* other than its start, or a segment ends at an id that is not a key of the
\* graph.
C18_ValidatorDetects ==
  [][(pc = "validate" /\ Inconsistent(edges, nodesegments))
       => (raised' /\ valid' = "fail" /\ pc' = "aborted")]_vars

\* the validator has raised on tables whose only fault is a segment ending
\* outside the graph
C18_Witness ==
  /\ pc = "aborted"
  /\ valid = "fail"
  /\ EndOutsideDag(edges, nodesegments)
  /\ ~ChildWithoutSegment(edges, nodesegments)
  /\ ~KeyOutsideDag(edges, nodesegments)
  /\ ~ForeignStart(nodesegments)
  /\ edges # EmptyFn

\* ------------------------------------------- claims on the growth contract
\* every segment has its two endpoint samples, at the positions of its nodes
WellFormedSegments ==
  \A i \in DOMAIN segments :
    LET s == segments[i]
    IN  /\ Len(s.points) >= 2
        /\ s.points[1].pos = skelnodes[s.start].pos
        /\ s.points[Len(s.points)].pos = skelnodes[s.end].pos

\* C19: when every segment has at least two samples, the first and last at
\* the positions of its endpoint nodes, no assertion of the growth stages
\* fails after the validator has accepted the graph: the start sample of every
\* segment grow_segments walks is already in the table of grown nodes.
C19_StartAlwaysRegistered ==
  (WellFormedSegments /\ valid = "ok") => (~raised /\ pc # "aborted")

\* a run on well-formed segments under a cutting box has walked the segments
\* of a node that is not a root, and grown three nodes
C19_Witness ==
  /\ WellFormedSegments
  /\ pc = "done"
  /\ ~raised
  /\ Len(grown_visited) = 3
  /\ \E n \in Range(grown_visited) :
       /\ n \notin Range(somanodes)
       /\ SegsOf(nodesegments, n) # <<>>
  /\ opts.k_CUTPOINT_AABB # NoAABB

\* --------------------------------------------- claims on duplicate entries
\* the next iteration of the loop takes an entry of a node visited before
DuplicatePop == pc = "dag" /\ frontier # <<>> /\ Head(frontier) \in Range(visited)

\* C20: an iteration of the loop of create_directed_graph on a worklist entry
\* whose node has been visited before examines no neighbour: it changes
\* neither the DAG nor the ignored-edge counter, and the node is not recorded
\* as visited a second time.
C20_DuplicatePopSkipped ==
  [][DuplicatePop =>
       /\ edges' = edges
       /\ warn_counts'[k_WARN_IGNORED_EDGES] = warn_counts[k_WARN_IGNORED_EDGES]
       /\ visited' = visited]_vars

\* ------------------------------------------- claims on a deduplicated list
\* line 373 guarded by `nn not in frontier`: a neighbour already in the
\* worklist is not queued again
ExpandResultDedup(fr, v, e, order, o, snodes) ==
  LET r == ExpandResult(fr, v, e, order, o, snodes)
  IN  [r EXCEPT !.frontier =
         Tail(fr) \o SelectSeq(order, LAMBDA nn : nn \notin Range(r.visited)
                                                  /\ nn \notin Range(Tail(fr)))]

\* the loop with the guarded line, under the iteration order of the run
RECURSIVE DedupLoop(_, _, _, _, _)
DedupLoop(g, fr, v, e, ignored) ==
  IF fr = <<>> THEN [edges |-> e, ignored |-> ignored, visited |-> v]
  ELSE LET order == SelectSeq(iter.perm, LAMBDA x : x \in Neighbours(g, Head(fr)))
           r     == ExpandResultDedup(fr, v, e, order, opts, somanodes)
       IN  DedupLoop(g, r.frontier, r.visited, r.edges, ignored + r.ignored)

DedupGraph ==
  DedupLoop(create_node_graph(segments), InitFrontier(somanodes), <<>>, EmptyFn, 0)

\* C21: create_directed_graph and its variant that never queues a node that
\* is already in the worklist return the same DAG and leave the same
\* ignored-edge count.
C21_DedupUnobservable ==
  DagReturned =>
    /\ edges = DedupGraph.edges
    /\ warn_counts[k_WARN_IGNORED_EDGES] = DedupGraph.ignored

\* --------------------------------------------- claims on the soma exemption
\* a node of the directed graph with children and no oriented segment
Unsegmented(dgraph, ns, n) == dgraph[n] # {} /\ SegsOf(ns, n) = <<>>

\* all its children are roots and roots are not connected to each other
RootChildrenOnly(dgraph, n) ==
  ~opts.k_CONNECT_SOMA_SOMA /\ dgraph[n] \subseteq Range(somanodes)

\* the tables have no fault other than unsegmented nodes
FaultlessElsewhere(dgraph, ns) ==
  /\ ~KeyOutsideDag(dgraph, ns)
  /\ ~ForeignStart(ns)
  /\ ~EndOutsideDag(dgraph, ns)
  /\ \A n \in DOMAIN dgraph : Unsegmented(dgraph, ns, n) \/ ChildrenAreEnds(dgraph, ns, n)

\* C22: on tables with a node that has children and no oriented segments,
\* validate_graph_segments as create_morphology calls it passes when every
\* such node has only roots as children and roots are not connected to each
\* other (and nothing else is at fault), and raises in every other case.
C22_RootChildrenExempt ==
  [][(pc = "validate" /\ \E n \in DOMAIN edges : Unsegmented(edges, nodesegments, n))
       => LET exempt == /\ \A n \in DOMAIN edges :
                             Unsegmented(edges, nodesegments, n) => RootChildrenOnly(edges, n)
                        /\ FaultlessElsewhere(edges, nodesegments)
          IN  raised' = ~exempt]_vars

\* ------------------------------------------------ claims on the depth budget
\* the nodes at the end of a chain of exactly k edges of the DAG from a root
RECURSIVE Level(_)
Level(k) == IF k = 0 THEN Roots ELSE Children(edges, Level(k - 1))

WithinBudget == UNION {Level(k) : k \in 0..(opts.graph_depth - 1)}

DepthCount == warn_counts[k_WARN_MAX_GROW_DEPTH_REACHED]

\* what the budget allows, in every state of the growth
BudgetKept ==
  pc \in {"grow", "file", "done"} =>
    IF opts.graph_depth > 0
    THEN /\ Range(grown_visited) \subseteq WithinBudget
         /\ \A i \in DOMAIN calls :
              /\ calls[i].depth \in 0..opts.graph_depth
              /\ calls[i].node \in Level(opts.graph_depth - calls[i].depth)
    ELSE /\ \A i \in DOMAIN calls : calls[i].depth = -1
         /\ DepthCount = 0

\* a call that arrives with budget 0
BudgetSpent == pc = "grow" /\ calls # <<>> /\ Head(calls).depth = 0

\* C23: a grow_segments call with depth budget 0 adds 1 to the depth-limit
\* counter and changes nothing else, without recursing; under a budget D > 0
\* only nodes fewer than D DAG edges from a root are visited and grown; under
\* the budget -1 every call has budget -1 and the depth-limit counter stays 0.
C23_DepthBudget ==
  /\ []BudgetKept
  /\ [][BudgetSpent =>
          /\ warn_counts' = Incr(warn_counts, k_WARN_MAX_GROW_DEPTH_REACHED, 1)
          /\ calls' = Tail(calls)
          /\ UNCHANGED <<grown_visited, nodes, sink, node_grow_stats, nodesegments>>]_vars

\* a path grown under a budget of 2: the root and its child are grown, the
\* call for the grandchild counts the limit, and the last node is never called
C23_Witness ==
  /\ pc = "done"
  /\ opts.graph_depth = 2
  /\ PathLength = 4
  /\ edges = PathDag
  /\ grown_visited = <<1, 2>>
  /\ DepthCount = 1

\* --------------------------------------------------- claims on a cut parent
\* node p has an oriented segment that is not skipped, its start sample
\* outside the AABB
StartsOutside(p) ==
  \E i \in DOMAIN SegsOf(nodesegments, p) :
    /\ Len(nodesegments[p][i].points) >= 2
    /\ OutsideAABB(nodesegments[p][i].points[1].pos)

\* the next call runs the body of grow_segments for such a node
CutParentCall ==
  /\ pc = "grow"
  /\ calls # <<>>
  /\ Head(calls).depth # 0
  /\ Head(calls).node \notin Range(grown_visited)
  /\ StartsOutside(Head(calls).node)

CutCount == warn_counts[k_WARN_CUT_NODES_FOUND]

\* C24: grow_segments on a node whose start sample is outside the AABB marks
\* the node visited and does nothing else: no call on the sink, no new entry
\* in the table of grown nodes, the cut-node counter as it was, and no call
\* for any child of the node.
C24_CutParentShortCircuit ==
  [][CutParentCall =>
       /\ grown_visited' = Append(grown_visited, Head(calls).node)
       /\ sink' = sink
       /\ nodes' = nodes
       /\ node_grow_stats' = node_grow_stats
       /\ CutCount' = CutCount
       /\ calls' = Tail(calls)]_vars

\* a run has ended in which a node below the root was entered outside the
\* AABB: it is visited, its child is not, and the only cut counted is the one
\* of the segment that led to it
C24_Witness ==
  /\ pc = "done"
  /\ \E p \in Range(grown_visited) \ Roots :
       /\ StartsOutside(p)
       /\ edges[p] # {}
       /\ \A c \in edges[p] : c \notin Range(grown_visited) /\ ~Grown(c)
  /\ CutCount = 1

\* ------------------------------------------ claims on segment conservation
UnconnectedCount == warn_counts[k_WARN_UNCONNECTED_SEGMENTS]

\* C25: with cycles disallowed no input segment is in the oriented map in
\* both orientations: each is there once or is counted once as unconnected,
\* so that the entries of the map and the unconnected count add up to the
\* number of input segments.
C25_SegmentConservation ==
  (pc = "validate" /\ ~opts.k_ALLOW_CYCLES) =>
    /\ \A i \in DOMAIN segments :
         /\ Count(EntriesOf(i)) = (IF i \in Unconnected THEN 0 ELSE 1)
         /\ ~(HasEdge(edges, segments[i].start, segments[i].end)
              /\ HasEdge(edges, segments[i].end, segments[i].start))
    /\ UnconnectedCount = Count(Unconnected)
    /\ Count(OrientedSegments) + UnconnectedCount = Len(segments)

\* three segments without cycles: one kept as read, one reversed, and one
\* between nodes no root reaches
C25_Witness ==
  /\ pc = "validate"
  /\ ~opts.k_ALLOW_CYCLES
  /\ Len(segments) = 3
  /\ UnconnectedCount = 1
  /\ \E i, j \in DOMAIN segments :
       /\ \E e \in EntriesOf(i) : SegmentAt(e) = segments[i]
       /\ \E e \in EntriesOf(j) : SegmentAt(e).start = segments[j].end
                                  /\ segments[j].start # segments[j].end

\* ------------------------------------------- claims on segments read twice
\* the input segments between two distinct nodes outside the soma that a root
\* reaches
InnerSegments ==
  {i \in DOMAIN segments :
     /\ segments[i].start # segments[i].end
     /\ {segments[i].start, segments[i].end} \cap Roots = {}
     /\ {segments[i].start, segments[i].end} \subseteq Reachable}

\* both directions of segment i are in the DAG and both copies in the map
BothCopies(i) ==
  /\ HasEdge(edges, segments[i].start, segments[i].end)
  /\ HasEdge(edges, segments[i].end, segments[i].start)
  /\ OrientationOf(i)
  /\ Count(EntriesOf(i)) = 2

BothWalked(i) == \A e \in EntriesOf(i) : Walked(SegmentAt(e))

\* C26 as stated: with cycles allowed every segment between two distinct
\* non-root nodes that a root reaches is in the DAG in both directions and in
\* the map in two copies, and by the end of the run grow_segments has walked
\* both copies.
C26_BothCopiesWalked ==
  /\ (Oriented /\ opts.k_ALLOW_CYCLES) => \A i \in InnerSegments : BothCopies(i)
  /\ (RunEnded /\ opts.k_ALLOW_CYCLES) => \A i \in InnerSegments : BothWalked(i)

\* C26, amended: the DAG and the map hold both directions and both copies
\* whenever cycles are allowed; both copies are walked by the end of a run
\* without depth budget and without AABB on a segment of at least 2 samples.
\* A depth budget or a node outside the AABB can leave a copy unwalked.
C26_BothCopiesWalkedUnbounded ==
  /\ (Oriented /\ opts.k_ALLOW_CYCLES) => \A i \in InnerSegments : BothCopies(i)
  /\ (RunEnded /\ opts.k_ALLOW_CYCLES /\ opts.graph_depth < 0
        /\ opts.k_CUTPOINT_AABB = NoAABB) =>
       \A i \in InnerSegments : Len(segments[i].points) >= 2 => BothWalked(i)

\* the triangle with cycles, no budget and no AABB: the segment between the
\* two nodes outside the soma, with an interior sample, walked from both ends
C26_Witness ==
  /\ pc = "done"
  /\ opts.k_ALLOW_CYCLES
  /\ opts.graph_depth < 0
  /\ opts.k_CUTPOINT_AABB = NoAABB
  /\ \E i \in InnerSegments :
       /\ Len(segments[i].points) = 3
       /\ BothCopies(i)
       /\ BothWalked(i)
       /\ {segments[i].start, segments[i].end} \subseteq Range(grown_visited)

WalkStep == pc = "grow" /\ calls # <<>>

\* how far the walk is from its end: the nodes whose body has not run yet,
\* each worth more than the calls its body can add, and the pending calls
WalkMeasure ==
  Cardinality(DOMAIN skelnodes \ Range(grown_visited)) * Cardinality(DOMAIN skelnodes)
    + Len(calls)

\* the body of grow_segments has run at most once for every node id
GrownOnce == Len(grown_visited) = Cardinality(Range(grown_visited))

\* C28: the recursive walk of grow_segments from all roots comes to an end on
\* every DAG, cyclic ones under the unbounded depth budget included: every
\* call brings the walk closer to its end, by returning at once or by growing
\* a node that no call has grown before; and the body that grows the
\* segments of a node runs at most once per node id.
C28_WalkTerminates ==
  /\ []GrownOnce
  /\ [][WalkStep => WalkMeasure' < WalkMeasure]_vars

\* the walk is over on a DAG with the cycle 2 -> 3 -> 2, without depth
\* budget: every node has been grown
C28_Witness ==
  /\ pc = "done"
  /\ opts.graph_depth = -1
  /\ HasEdge(edges, 2, 3)
  /\ HasEdge(edges, 3, 2)
  /\ Range(grown_visited) = {1, 2, 3}
  /\ GrownOnce
  /\ calls = <<>>

\* ------------------------------------------ claims on the validator's frame
\* C29: validate_graph_segments changes neither the DAG nor the oriented map,
\* the keys of the map included, whether it returns or raises.
C29_ValidatorPure ==
  [][pc = "validate" =>
       /\ edges' = edges
       /\ nodesegments' = nodesegments
       /\ DOMAIN nodesegments' = DOMAIN nodesegments]_vars

\* ------------------------------------------------ claims on the stack box
\* the box of the annotations, as its two corners give it
AnnotatedBox == v3_to_aabb(stack.v1, stack.v2)

CutBox == opts.k_CUTPOINT_AABB

Extent(aabb, i) == aabb[2][i] - aabb[1][i]

\* C30 as stated: the box used for the cut test is the annotated box moved
\* outward: on every axis its minimum is at most and its maximum at least
\* the annotated one, and no point strictly inside the annotated box is a cut
\* point.
C30_BoxExpanded ==
  pc = "annotated" =>
    /\ \A i \in 1..3 : /\ CutBox[1][i] <= AnnotatedBox[1][i]
                       /\ CutBox[2][i] >= AnnotatedBox[2][i]
    /\ \A p \in BoxPoints : inside_aabb(AnnotatedBox, p) => ~is_cut_point(p, CutBox)

\* C30, amended: the box used for the cut test is the annotated box with
\* every face moved inward by 1. On an axis of extent 2 or more its minimum
\* is the annotated minimum + 1 and its maximum the annotated maximum - 1; on
\* a thinner axis the moved bounds cross and are sorted again. When every
\* extent is 2 or more, a point is no cut point exactly when it is strictly
\* inside the annotated box and more than 1 away from each of its faces.
C30_BoxShrunk ==
  pc = "annotated" =>
    /\ \A i \in 1..3 :
         IF Extent(AnnotatedBox, i) >= 2
         THEN /\ CutBox[1][i] = AnnotatedBox[1][i] + 1
              /\ CutBox[2][i] = AnnotatedBox[2][i] - 1
         ELSE /\ CutBox[1][i] = AnnotatedBox[2][i] - 1
              /\ CutBox[2][i] = AnnotatedBox[1][i] + 1
    /\ (\A i \in 1..3 : Extent(AnnotatedBox, i) >= 2) =>
         \A p \in BoxPoints :
           ~is_cut_point(p, CutBox)
             <=> \A i \in 1..3 : /\ AnnotatedBox[1][i] + 1 < p[i]
                                 /\ p[i] < AnnotatedBox[2][i] - 1

\* a box of extent 4 on every axis has been read: the point at distance 1
\* from three of its faces is strictly inside it and is a cut point, its
\* centre is not
C30_Witness ==
  /\ pc = "annotated"
  /\ AnnotatedBox = <<(<<0, 0, 0>>), (<<4, 4, 4>>)>>
  /\ inside_aabb(AnnotatedBox, <<1, 1, 1>>)
  /\ is_cut_point(<<1, 1, 1>>, CutBox)
  /\ ~is_cut_point(<<2, 2, 2>>, CutBox)

====
